---- MODULE Spec2Model ----
(***************************************************************************)
(* A model of jpl-au/chain: the Mux scopes (Use, Group, Route, Handle) and *)
(* the responseWriter that wraps the http.ResponseWriter of a request.     *)
(*                                                                         *)
(* Strings the code slices (route prefixes, patterns) are sequences of     *)
(* one-character strings.  A middleware function is a positive number: the *)
(* n-th middleware function ever handed to Use is n, so the numbers follow  *)
(* the order of registration.                                               *)
(***************************************************************************)
EXTENDS Integers, Sequences, FiniteSets, TLC

VARIABLES
    muxes,      \* the Mux values: muxes[1] is the one New returned
    origin,     \* history: how each Mux was derived (parent, Group/Route, argument)
    routes,     \* the registrations made with the shared http.ServeMux, in order
    useLog,     \* history: useLog[n] is the Mux whose Use call registered middleware n
    served,     \* the last request dispatched to a route and the events it produced
    panicMsg,   \* the panic raised by the last operation, "" when it returned
    phase,      \* the request at hand: "idle", "serving" or "done"
    rw,         \* the responseWriter of the request at hand
    sink,       \* the http.ResponseWriter it wraps: what that one was given
    stack,      \* the substitute handlers running inside handleInterception
    calls,      \* history: the WriteHeader and Write calls made on rw, in order
    under,      \* the http.ResponseWriter values below rw: under[1] is the one rw
                \* wraps, under[i + 1] the one under[i].Unwrap() returns; each is
                \* the set of the optional methods it has
    capCalls,   \* history: the Flush, Hijack and Push calls made on rw, in order
    conc,       \* the requests served concurrently: where each one is, and the
                \* history of the calls it made on its responseWriter
    writers,    \* the responseWriter of each of them, with its sink
    counter,    \* the counter of the middleware of TestConcurrentRequests
    dispatch,   \* the last request followed through a composed handler: the
                \* writer each function of it received and what was read from it
    reads,      \* the last call of an accessor of rw and what it returned
    applied     \* history: the middleware functions applied to a handler so
                \* far, in the order of the applications

setupVars == <<muxes, origin, routes, useLog, served, panicMsg>>
writerVars == <<phase, rw, sink, stack, calls>>
capVars == <<under, capCalls>>
concVars == <<conc, writers, counter>>
lateVars == <<dispatch, reads, applied>>
otherVars == <<under, capCalls, conc, writers, counter, dispatch, reads>>
restVars == <<under, capCalls, conc, writers, counter, dispatch, reads, applied>>
vars == <<muxes, origin, routes, useLog, served, panicMsg, phase, rw, sink, stack, calls,
          under, capCalls, conc, writers, counter, dispatch, reads, applied>>

\* ------------------------------------------------------------------ bounds

\* The number of registrations (Mux derivations, middleware, routes) a run makes.
MaxRegistrations == 4

\* The WriteHeader and Write calls made on one responseWriter.
MaxCalls == 4

\* The length of the longest payload handed to Write.
MaxLen == 1

\* The Flush, Hijack and Push calls made on one responseWriter.
MaxCapCalls == 2

\* The requests served concurrently, and the calls they make on their writers,
\* all requests together.
MaxRequests == 2
MaxSteps == 3

\* ------------------------------------------------------------------ inputs

Nil == "nil"

\* Arguments of one Use call: "fn" stands for a middleware not registered before.
UseArgs == { <<"fn">>, <<"fn", "fn">>, <<Nil>>, <<"fn", Nil>> }

\* Callbacks handed to Group and Route.
Callbacks == { Nil, "fn" }

\* Leaf handlers handed to Handle and HandleFunc.
LeafHandlers == { Nil, "h1" }

\* Prefixes handed to Route: "/a", "/b".
RoutePrefixes == { <<"/", "a">>, <<"/", "b">> }

\* Patterns handed to Handle: "G /u" (verb and path), "/h" (path only).
Patterns == { <<"G", " ", "/", "u">>, <<"/", "h">> }

\* ------------------------------------------------------------------ chain.go

\* New: a Mux with no middleware, no prefix and no custom handlers.
New ==
    [middlewares |-> <<>>, prefix |-> <<>>, notFound |-> Nil, methodNotAllowed |-> Nil]

\* A wrapResponseWriter that takes the two custom handlers in the other order.
wrapResponseWriterSwapped(notFound, methodNotAllowed) ==
    [status |-> 0, size |-> 0, written |-> FALSE,
     notFound |-> methodNotAllowed, methodNotAllowed |-> notFound,
     ignoreWrites |-> FALSE]

\* wrapResponseWriter: status 0, size 0, nothing written, writes not ignored.
wrapResponseWriter(notFound, methodNotAllowed) ==
    [status |-> 0, size |-> 0, written |-> FALSE,
     notFound |-> notFound, methodNotAllowed |-> methodNotAllowed,
     ignoreWrites |-> FALSE]

\* A sink that was given nothing yet: no WriteHeader, no byte, no header.
NewSink == [commits |-> <<>>, bytes |-> 0, headers |-> {}]

Init ==
    /\ muxes = <<New>>
    /\ origin = <<[parent |-> 0, kind |-> "New", arg |-> <<>>, base |-> <<>>]>>
    /\ routes = <<>>
    /\ useLog = <<>>
    /\ served = [route |-> 0, events |-> <<>>]
    /\ panicMsg = ""
    /\ phase = "idle"
    /\ rw = wrapResponseWriter(Nil, Nil)
    /\ sink = NewSink
    /\ stack = <<>>
    /\ calls = <<>>
    /\ under = << {} >>
    /\ capCalls = <<>>
    /\ conc = [r \in 1..MaxRequests |-> [pc |-> "new", log |-> <<>>]]
    /\ writers = [r \in 1..MaxRequests |->
                     [rw |-> wrapResponseWriter(Nil, Nil), sink |-> NewSink, stack |-> <<>>]]
    /\ counter = 0
    /\ dispatch = [route |-> 0]
    /\ reads = [op |-> "none"]
    /\ applied = <<>>

\* The registrations made so far.
Registrations == (Len(muxes) - 1) + Len(useLog) + Len(routes)

\* A panic at setup aborts the program: nothing runs after it.
Running == panicMsg = ""

\* A nil check that looks at the first argument only.
HasNilFirst(args) == args[1] = Nil

\* for _, fn := range mw { if fn == nil { panic(...) } }
HasNil(args) == \E i \in DOMAIN args : args[i] = Nil

\* The middleware functions a Use call with these arguments registers.
Fresh(args) == [i \in 1..Len(args) |-> Len(useLog) + i]

\* A shared chain: the append also lands in the Mux derived from m and in the
\* Mux m was derived from.
UseSharedChain(m, mw) ==
    [s \in DOMAIN muxes |->
        IF s = m \/ origin[s].parent = m \/ origin[m].parent = s
        THEN [muxes[s] EXCEPT !.middlewares = @ \o mw]
        ELSE muxes[s]]

\* m.middlewares = append(m.middlewares, mw...)
UseAppend(m, mw) ==
    [muxes EXCEPT ![m].middlewares = @ \o mw]

Use(m, args) ==
    /\ Running
    /\ IF HasNil(args)
       THEN /\ panicMsg' = "chain: nil middleware passed to Use"
            /\ UNCHANGED <<muxes, origin, routes, useLog, served, writerVars, restVars>>
       ELSE /\ Registrations + Len(args) <= MaxRegistrations
            /\ muxes' = UseAppend(m, Fresh(args))
            /\ useLog' = useLog \o [i \in 1..Len(args) |-> m]
            /\ panicMsg' = ""
            /\ UNCHANGED <<origin, routes, served, writerVars, restVars>>

\* A Group child that starts with an empty chain.
GroupChainEmpty(m) == <<>>

\* append([]func(http.Handler) http.Handler{}, m.middlewares...): a copy.
GroupChain(m) == muxes[m].middlewares

\* A Group child that forgets the prefix.
GroupPrefixEmpty(m) == <<>>

\* prefix: m.prefix
GroupPrefix(m) == muxes[m].prefix

\* prefix: m.prefix + prefix
RoutePrefix(m, prefix) == muxes[m].prefix \o prefix

Group(m, fn) ==
    /\ Running
    /\ IF fn = Nil
       THEN /\ panicMsg' = "chain: nil function passed to Group"
            /\ UNCHANGED <<muxes, origin, routes, useLog, served, writerVars, restVars>>
       ELSE /\ Registrations < MaxRegistrations
            /\ muxes' = Append(muxes, [middlewares |-> GroupChain(m),
                                       prefix |-> GroupPrefix(m),
                                       notFound |-> Nil,
                                       methodNotAllowed |-> Nil])
            /\ origin' = Append(origin, [parent |-> m, kind |-> "Group", arg |-> <<>>,
                                         base |-> muxes[m].middlewares])
            /\ panicMsg' = ""
            /\ UNCHANGED <<routes, useLog, served, writerVars, restVars>>

Route(m, prefix, fn) ==
    /\ Running
    /\ IF fn = Nil
       THEN /\ panicMsg' = "chain: nil function passed to Route"
            /\ UNCHANGED <<muxes, origin, routes, useLog, served, writerVars, restVars>>
       ELSE /\ Registrations < MaxRegistrations
            /\ muxes' = Append(muxes, [middlewares |-> GroupChain(m),
                                       prefix |-> RoutePrefix(m, prefix),
                                       notFound |-> Nil,
                                       methodNotAllowed |-> Nil])
            /\ origin' = Append(origin, [parent |-> m, kind |-> "Route", arg |-> prefix,
                                         base |-> muxes[m].middlewares])
            /\ panicMsg' = ""
            /\ UNCHANGED <<routes, useLog, served, writerVars, restVars>>

\* The loop of prefixPattern: the 0-based index of the first "/", 0 when there
\* is none.
RECURSIVE pathStartFrom(_, _)
pathStartFrom(pattern, i) ==
    IF i > Len(pattern) THEN 0
    ELSE IF pattern[i] = "/" THEN i - 1
    ELSE pathStartFrom(pattern, i + 1)

\* The prefix put in front of the whole pattern.
prefixPatternWhole(m, pattern) ==
    muxes[m].prefix \o pattern

prefixPattern(m, pattern) ==
    IF muxes[m].prefix = <<>>
    THEN pattern
    ELSE LET pathStart == pathStartFrom(pattern, 1)
         IN  SubSeq(pattern, 1, pathStart) \o muxes[m].prefix
                \o SubSeq(pattern, pathStart + 1, Len(pattern))

\* A handler is the sequence of the middleware wrapped around a leaf handler,
\* outermost first, ending with the leaf: mw(next) puts mw in front of next.
Apply(mw, next) == <<mw>> \o next

\* The loop of wrap: for i := len(m.middlewares) - 1; i >= 0; i--
RECURSIVE wrapFrom(_, _, _)
wrapFrom(middlewares, i, handler) ==
    IF i < 1 THEN handler
    ELSE wrapFrom(middlewares, i - 1, Apply(middlewares[i], handler))

\* The loop running forwards: the first registered ends up innermost.
RECURSIVE wrapForwardFrom(_, _, _)
wrapForwardFrom(middlewares, i, handler) ==
    IF i > Len(middlewares) THEN handler
    ELSE wrapForwardFrom(middlewares, i + 1, Apply(middlewares[i], handler))

wrapForward(m, handler) ==
    [handler |-> wrapForwardFrom(muxes[m].middlewares, 1, <<handler>>), mux |-> m]

\* The loop stopping at i > 0: m.middlewares[0] is never applied.
wrapSkipFirst(m, handler) ==
    [handler |-> IF muxes[m].middlewares = <<>> THEN <<handler>>
                 ELSE wrapFrom(Tail(muxes[m].middlewares),
                               Len(muxes[m].middlewares) - 1, <<handler>>),
     mux |-> m]

\* wrap: the composed handler, and the Mux its closure holds.
wrap(m, handler) ==
    [handler |-> wrapFrom(muxes[m].middlewares, Len(muxes[m].middlewares), <<handler>>),
     mux |-> m]

\* The middleware functions the loop of wrap calls, in the order of the calls.
RECURSIVE wrapApplied(_, _)
wrapApplied(middlewares, i) ==
    IF i < 1 THEN <<>>
    ELSE <<middlewares[i]>> \o wrapApplied(middlewares, i - 1)

\* http.ServeMux.Handle panics on a pattern that conflicts with a registered one.
Conflicts(pattern) == \E i \in DOMAIN routes : routes[i].pattern = pattern

\* m.router.Handle(m.prefixPattern(pattern), m.wrap(handler)). The fields arg,
\* chain and leaf are history: the pattern and the handler as they were given and
\* the chain of m at the moment of the call.
Register(m, pattern, handler) ==
    IF Conflicts(prefixPattern(m, pattern))
    THEN /\ panicMsg' = "http: pattern conflict"
         /\ UNCHANGED <<muxes, origin, routes, useLog, served, writerVars, restVars>>
    ELSE /\ Registrations < MaxRegistrations
         /\ routes' = Append(routes, [pattern |-> prefixPattern(m, pattern),
                                      handler |-> wrap(m, handler),
                                      arg |-> pattern,
                                      chain |-> muxes[m].middlewares,
                                      leaf |-> handler])
         /\ applied' = applied \o wrapApplied(muxes[m].middlewares,
                                               Len(muxes[m].middlewares))
         /\ panicMsg' = ""
         /\ UNCHANGED <<muxes, origin, useLog, served, writerVars, otherVars>>

Handle(m, pattern, handler) ==
    /\ Running
    /\ IF handler = Nil
       THEN /\ panicMsg' = "chain: nil handler passed to Handle"
            /\ UNCHANGED <<muxes, origin, routes, useLog, served, writerVars, restVars>>
       ELSE Register(m, pattern, handler)

HandleFunc(m, pattern, handlerFunc) ==
    /\ Running
    /\ IF handlerFunc = Nil
       THEN /\ panicMsg' = "chain: nil handler passed to HandleFunc"
            /\ UNCHANGED <<muxes, origin, routes, useLog, served, writerVars, restVars>>
       ELSE Register(m, pattern, handlerFunc)

\* Running a composed handler whose middleware each record an event, call next
\* once and record an event again; the leaf records one event.
RECURSIVE Run(_)
Run(handler) ==
    IF Len(handler) = 1
    THEN << [ev |-> "handler", id |-> handler[1]] >>
    ELSE << [ev |-> "before", id |-> Head(handler)] >>
            \o Run(Tail(handler))
            \o << [ev |-> "after", id |-> Head(handler)] >>

\* A composed handler that applies the chain of its route on every request.
AppliedOnServeAgain(i) == wrapApplied(routes[i].chain, Len(routes[i].chain))

\* The middleware functions applied when routes[i] serves a request: the
\* handler wrap returned calls the handler composed at registration.
AppliedOnServe(i) == <<>>

\* ServeHTTP for a request the router resolves to routes[i].
ServeRoute(i) ==
    /\ Running
    /\ served' = [route |-> i, events |-> Run(routes[i].handler.handler)]
    /\ applied' = applied \o AppliedOnServe(i)
    /\ panicMsg' = ""
    /\ UNCHANGED <<muxes, origin, routes, useLog, writerVars, otherVars>>

\* ------------------------------------------------------------------ properties of the scopes

\* The middleware of a composed handler, outermost first, and its leaf.
ChainOf(handler) == SubSeq(handler, 1, Len(handler) - 1)
LeafOf(handler) == handler[Len(handler)]

\* m1-before, ..., mn-before, h, mn-after, ..., m1-after
ExpectedEvents(chain, leaf) ==
    LET n == Len(chain)
    IN  [k \in 1..(2 * n + 1) |->
            IF k <= n THEN [ev |-> "before", id |-> chain[k]]
            ELSE IF k = n + 1 THEN [ev |-> "handler", id |-> leaf]
            ELSE [ev |-> "after", id |-> chain[2 * n + 2 - k]]]

\* Middleware numbers follow registration, so a chain in registration order
\* is an increasing one.
InRegistrationOrder(chain) ==
    \A j, k \in DOMAIN chain : j < k => chain[j] < chain[k]

\* The Mux s and every Mux it was derived from, directly or not.
RECURSIVE AncestorsOrSelf(_)
AncestorsOrSelf(s) ==
    IF origin[s].parent = 0 THEN {s}
    ELSE {s} \cup AncestorsOrSelf(origin[s].parent)

\* The prefixes handed to the Route calls that lead to s, concatenated.
RECURSIVE RoutePath(_)
RoutePath(s) ==
    IF origin[s].parent = 0 THEN <<>>
    ELSE RoutePath(origin[s].parent) \o origin[s].arg

\* The 1-based index of the first "/" of a pattern that has one.
FirstSlash(pattern) ==
    CHOOSE k \in DOMAIN pattern :
        pattern[k] = "/" /\ \A j \in 1..(k - 1) : pattern[j] # "/"

\* The middleware a Mux registered itself.
Own(s) == { n \in DOMAIN useLog : useLog[n] = s }

C2_ScopeIsolation ==
    /\ \A s \in DOMAIN muxes :
          \A k \in DOMAIN muxes[s].middlewares :
              useLog[muxes[s].middlewares[k]] \in AncestorsOrSelf(s)
    /\ \A i \in DOMAIN routes :
          \A k \in DOMAIN ChainOf(routes[i].handler.handler) :
              useLog[routes[i].handler.handler[k]] \in AncestorsOrSelf(routes[i].handler.mux)

\* A child registered a middleware and a sibling of it has a route.
C2_Witness ==
    \E c, t \in DOMAIN muxes, i \in DOMAIN routes :
        /\ c # t
        /\ origin[c].parent # 0
        /\ origin[c].parent = origin[t].parent
        /\ Own(c) # {}
        /\ routes[i].handler.mux = t

\* C3. Inheritance: the composed handler of a route registered on a derived Mux
\* starts with the chain its parent had at the derivation, in that order, and
\* everything after it was registered by the derived Mux itself.
C3_Inheritance ==
    \A i \in DOMAIN routes :
        LET c == routes[i].handler.mux
            chain == ChainOf(routes[i].handler.handler)
            base == origin[c].base
        IN  origin[c].parent # 0 =>
                /\ Len(base) <= Len(chain)
                /\ SubSeq(chain, 1, Len(base)) = base
                /\ \A k \in (Len(base) + 1)..Len(chain) : useLog[chain[k]] = c

\* A route on a child that inherited a middleware and registered one itself.
C3_Witness ==
    \E i \in DOMAIN routes :
        LET c == routes[i].handler.mux
        IN  /\ origin[c].parent # 0
            /\ origin[c].base # <<>>
            /\ Len(ChainOf(routes[i].handler.handler)) > Len(origin[c].base)

\* C4. Copy-on-derive: the chain of a Mux changes only in a step in which Use
\* was called on that very Mux; a Use on a parent leaves every child's chain as
\* it was, and a Use on a child leaves the parent's.
C4_CopyOnDerive ==
    [][\A s \in DOMAIN muxes :
          \/ muxes'[s].middlewares = muxes[s].middlewares
          \/ /\ Len(useLog') > Len(useLog)
             /\ \A n \in (Len(useLog) + 1)..Len(useLog') : useLog'[n] = s]_vars

\* After the derivation the parent and the child each registered a middleware
\* the other does not have.
C4_Witness ==
    \E c \in DOMAIN muxes :
        LET p == origin[c].parent
        IN  /\ p # 0
            /\ \E n \in Own(p) : \A k \in DOMAIN muxes[c].middlewares :
                    muxes[c].middlewares[k] # n
            /\ \E n \in Own(c) : \A k \in DOMAIN muxes[p].middlewares :
                    muxes[p].middlewares[k] # n

\* C5. Registration-time snapshot: a registered route never changes, whatever is
\* called afterwards, and a route being registered is composed from the whole
\* chain its Mux has at that moment.
C5_RegistrationSnapshot ==
    [][/\ \A i \in DOMAIN routes :
             i \in DOMAIN routes' /\ routes'[i] = routes[i]
       /\ \A i \in DOMAIN routes' \ DOMAIN routes :
             /\ ChainOf(routes'[i].handler.handler)
                   = muxes[routes'[i].handler.mux].middlewares
             /\ LeafOf(routes'[i].handler.handler) = routes'[i].leaf]_vars

\* Two routes of one Mux, the later one composed from a longer chain.
C5_Witness ==
    \E i, j \in DOMAIN routes :
        /\ i < j
        /\ routes[i].handler.mux = routes[j].handler.mux
        /\ Len(routes[i].handler.handler) < Len(routes[j].handler.handler)

\* C6. Prefix composition: the prefix of a Mux is the concatenation of the
\* prefixes of the Route calls that lead to it, and a route is registered as
\* its pattern with that prefix inserted right before the first "/": the verb,
\* if any, stays in front, and with an empty prefix the pattern is unchanged.
C6_PrefixComposition ==
    /\ \A s \in DOMAIN muxes : muxes[s].prefix = RoutePath(s)
    /\ \A i \in DOMAIN routes :
          LET arg == routes[i].arg
              pre == RoutePath(routes[i].handler.mux)
              k == FirstSlash(arg)
          IN  routes[i].pattern
                 = SubSeq(arg, 1, k - 1) \o pre \o SubSeq(arg, k, Len(arg))

\* "G /u" registered under Route("/a") and Route("/b") nested: "G /a/b/u".
C6_Witness ==
    \E i \in DOMAIN routes :
        /\ routes[i].arg = <<"G", " ", "/", "u">>
        /\ routes[i].pattern = <<"G", " ", "/", "a", "/", "b", "/", "u">>

\* C7. A Mux derived by Group has the prefix of its parent, one derived by Route
\* has the parent's prefix followed by its own, and the Mux New returned has
\* none: deriving never changes the prefix of the receiver.
C7_DerivedPrefix ==
    \A s \in DOMAIN muxes :
        LET p == origin[s].parent
        IN  CASE origin[s].kind = "New" -> muxes[s].prefix = <<>>
              [] origin[s].kind = "Group" -> muxes[s].prefix = muxes[p].prefix
              [] origin[s].kind = "Route" ->
                    muxes[s].prefix = muxes[p].prefix \o origin[s].arg

\* Under one Route parent: a Group child and two Route children with
\* different prefixes.
C7_Witness ==
    \E g, a, b \in DOMAIN muxes :
        /\ origin[g].kind = "Group"
        /\ origin[a].kind = "Route"
        /\ origin[b].kind = "Route"
        /\ origin[a].arg # origin[b].arg
        /\ origin[g].parent = origin[a].parent
        /\ origin[a].parent = origin[b].parent
        /\ origin[g].parent # 0
        /\ muxes[origin[g].parent].prefix # <<>>

\* The step aborts setup with a panic and registers nothing: no Mux, no
\* middleware and no route is added or changed.
Aborts ==
    /\ panicMsg' # ""
    /\ muxes' = muxes
    /\ origin' = origin
    /\ routes' = routes
    /\ useLog' = useLog

StatusCodes == { 0, 200, 202, 404, 405 }

\* Custom handlers handed to WithNotFound and WithMethodNotAllowed.
CustomHandlers == { Nil, "custom" }

\* Header keys set on the response.
HeaderKeys == { "Content-Type" }

StatusOK == 200
StatusNotFound == 404
StatusMethodNotAllowed == 405

\* A WithNotFound that rejects a nil handler as Handle does.
WithNotFoundNilPanics(handler) ==
    /\ phase = "idle"
    /\ Running
    /\ IF handler = Nil
       THEN /\ panicMsg' = "chain: nil handler passed to WithNotFound"
            /\ UNCHANGED <<muxes, origin, routes, useLog, served, writerVars, restVars>>
       ELSE /\ muxes' = [muxes EXCEPT ![1].notFound = handler]
            /\ UNCHANGED <<origin, routes, useLog, served, panicMsg, writerVars, restVars>>

\* WithNotFound and WithMethodNotAllowed, on the Mux New returned.
WithNotFound(handler) ==
    /\ phase = "idle"
    /\ Running
    /\ muxes' = [muxes EXCEPT ![1].notFound = handler]
    /\ UNCHANGED <<origin, routes, useLog, served, panicMsg, writerVars, restVars>>

WithMethodNotAllowed(handler) ==
    /\ phase = "idle"
    /\ Running
    /\ muxes' = [muxes EXCEPT ![1].methodNotAllowed = handler]
    /\ UNCHANGED <<origin, routes, useLog, served, panicMsg, writerVars, restVars>>

\* ServeHTTP: m.router.ServeHTTP(m.wrapWriter(w, r), r) with a sink of its own.
ServeHTTP ==
    /\ phase = "idle"
    /\ phase' = "serving"
    /\ rw' = wrapResponseWriter(muxes[1].notFound, muxes[1].methodNotAllowed)
    /\ sink' = NewSink
    /\ stack' = <<>>
    /\ calls' = <<>>
    /\ UNCHANGED <<setupVars, restVars>>

\* The router's ServeHTTP returns: no substitute handler is running any more.
Return ==
    /\ phase = "serving"
    /\ stack = <<>>
    /\ phase' = "done"
    /\ UNCHANGED <<setupVars, restVars, rw, sink, stack, calls>>

\* Who makes a call: the dispatch path the router started, or a substitute handler.
Caller == IF stack = <<>> THEN "orig" ELSE "sub"

\* Status() that reports the stored status as it is.
StatusRaw == rw.status

\* Status(): 200 while no status is stored.
Status == IF rw.status = 0 THEN StatusOK ELSE rw.status

Size == rw.size

Written == rw.written

\* A WriteHeader that never takes the early return.
AlreadyWrittenNever == FALSE

\* if rw.written { return }
AlreadyWritten == rw.written

\* A WriteHeader that hands a 404 or a 405 to whichever custom handler is set.
InterceptorEitherHandler(status) ==
    IF rw.status = 0 /\ status \in {StatusNotFound, StatusMethodNotAllowed}
    THEN (IF rw.notFound # Nil THEN rw.notFound ELSE rw.methodNotAllowed)
    ELSE Nil

\* The handler WriteHeader(status) hands the response to, Nil when it commits.
Interceptor(status) ==
    IF rw.status = 0 /\ status = StatusNotFound /\ rw.notFound # Nil
    THEN rw.notFound
    ELSE IF rw.status = 0 /\ status = StatusMethodNotAllowed /\ rw.methodNotAllowed # Nil
    THEN rw.methodNotAllowed
    ELSE Nil

\* A call as the log keeps it; n counts the bytes the sink took from a Write and
\* the headers an intercepting WriteHeader deleted.
Call(op, arg, result, n, err) ==
    [op |-> op, arg |-> arg, by |-> Caller, result |-> result, n |-> n, err |-> err]

\* A handleInterception that leaves the handlers of the writer in place.
ClearHandlersNot(w) == w

\* rw.notFound = nil; rw.methodNotAllowed = nil
ClearHandlers(w) == [w EXCEPT !.notFound = Nil, !.methodNotAllowed = Nil]

\* A handleInterception that leaves the headers of the sink in place.
ClearHeadersNot(headers) == headers

\* for k := range h { h.Del(k) }
ClearHeaders(headers) == {}

\* WriteHeader, up to the call of the substitute handler when it intercepts:
\* handleInterception clears both handlers and every header of the sink, then
\* runs the handler (SubstituteReturn is the rest of handleInterception).
WriteHeader(status) ==
    /\ phase = "serving"
    /\ Len(calls) < MaxCalls
    /\ IF AlreadyWritten
       THEN /\ calls' = Append(calls, Call("WriteHeader", status, "ignored", 0, FALSE))
            /\ UNCHANGED <<rw, sink, stack>>
       ELSE IF Interceptor(status) # Nil
       THEN /\ rw' = ClearHandlers(rw)
            /\ sink' = [sink EXCEPT !.headers = ClearHeaders(@)]
            /\ stack' = Append(stack, Interceptor(status))
            /\ calls' = Append(calls, Call("WriteHeader", status, "intercepted",
                                              Cardinality(sink.headers), FALSE))
       ELSE /\ rw' = [rw EXCEPT !.status = status, !.written = TRUE]
            /\ sink' = [sink EXCEPT !.commits = Append(@, status)]
            /\ calls' = Append(calls, Call("WriteHeader", status, "committed", 0, FALSE))
            /\ UNCHANGED stack
    /\ UNCHANGED <<setupVars, restVars, phase>>

\* A handleInterception that does not touch ignoreWrites when the handler returns.
IgnoreWritesAfterKept == rw.ignoreWrites

\* rw.ignoreWrites = true
IgnoreWritesAfter == TRUE

\* The substitute handler returns to handleInterception: rw.ignoreWrites = true.
SubstituteReturn ==
    /\ phase = "serving"
    /\ stack # <<>>
    /\ rw' = [rw EXCEPT !.ignoreWrites = IgnoreWritesAfter]
    /\ stack' = SubSeq(stack, 1, Len(stack) - 1)
    /\ UNCHANGED <<setupVars, restVars, phase, sink, calls>>

\* A size that grows by the length of the payload, whatever the sink took.
SizeAfterWriteAll(len, n) == rw.size + len

\* rw.size += size
SizeAfterWrite(len, n) == rw.size + n

\* A Write that is discarded from the moment the interception starts.
SuppressedWhileIntercepting == rw.ignoreWrites \/ stack # <<>>

\* if rw.ignoreWrites { return len(b), nil }
Suppressed == rw.ignoreWrites

\* A Write that leaves the stored status as it finds it.
StatusAfterWriteKept == rw.status

\* if !rw.written { rw.written = true; rw.status = http.StatusOK }
StatusAfterWrite == IF rw.written THEN rw.status ELSE StatusOK

\* Write of len bytes, of which the sink takes n and reports the error err.
Write(len, n, err) ==
    /\ phase = "serving"
    /\ Len(calls) < MaxCalls
    /\ IF Suppressed
       THEN /\ calls' = Append(calls, Call("Write", len, "suppressed", len, FALSE))
            /\ UNCHANGED <<rw, sink>>
       ELSE /\ rw' = [rw EXCEPT !.written = TRUE,
                                !.status = StatusAfterWrite,
                                !.size = SizeAfterWrite(len, n)]
            /\ sink' = [sink EXCEPT !.bytes = @ + n]
            /\ calls' = Append(calls, Call("Write", len, "forwarded", n, err))
    /\ UNCHANGED <<setupVars, restVars, phase, stack>>

\* The value a caller gives a header: the dispatch path's own before it commits
\* ("orig"), the substitute handler's ("sub"), and the dispatch path's once
\* handleInterception has returned to it ("late").
HeaderValue ==
    IF stack # <<>> THEN "sub"
    ELSE IF \E i \in DOMAIN calls : calls[i].result = "intercepted" THEN "late"
    ELSE "orig"

\* rw.Header().Set(key, value): the header map is the sink's own, and holds
\* <<key, value>> pairs with one value to a key.
SetHeader(key) ==
    /\ phase = "serving"
    /\ <<key, HeaderValue>> \notin sink.headers
    /\ sink' = [sink EXCEPT !.headers = { h \in @ : h[1] # key } \cup {<<key, HeaderValue>>}]
    /\ UNCHANGED <<setupVars, restVars, phase, rw, stack, calls>>

\* What the sink may answer to a Write of len bytes: a count of at most len,
\* with an error exactly when the count is short.
SinkAnswers(len) ==
    { <<n, n < len>> : n \in 0..len }

\* ------------------------------------------------------------------ properties of the responseWriter

\* The step is a call of this operation on rw.
IsCall(op) ==
    /\ Len(calls') = Len(calls) + 1
    /\ calls'[Len(calls')].op = op

\* The calls of one operation made so far.
CallsOf(op) == { i \in DOMAIN calls : calls[i].op = op }

\* The Write calls that were not discarded.
ForwardedWrites == { i \in CallsOf("Write") : calls[i].result # "suppressed" }

\* The WriteHeader calls that committed their status.
ExplicitCommits == { i \in CallsOf("WriteHeader") : calls[i].result = "committed" }

\* The bytes handed to the Write calls, and the bytes the sink reported taking.
RECURSIVE SumArg(_)
SumArg(S) ==
    IF S = {} THEN 0
    ELSE LET i == CHOOSE x \in S : TRUE IN calls[i].arg + SumArg(S \ {i})

RECURSIVE SumTaken(_)
SumTaken(S) ==
    IF S = {} THEN 0
    ELSE LET i == CHOOSE x \in S : TRUE IN calls[i].n + SumTaken(S \ {i})

\* C8. Idempotent commit: on a writer that has committed a status, a WriteHeader
\* call with any status changes neither the writer (status, size, written) nor
\* what the sink was given.
C8_IdempotentCommit ==
    [][(Written /\ IsCall("WriteHeader")) =>
          /\ rw' = rw
          /\ sink' = sink
          /\ Status' = Status /\ Size' = Size /\ Written']_vars

\* Two WriteHeader calls with different statuses: the writer and the sink hold
\* the first one.
C8_Witness ==
    \E i, j \in CallsOf("WriteHeader") :
        /\ i < j
        /\ calls[i].result = "committed"
        /\ calls[j].arg # calls[i].arg
        /\ Status = calls[i].arg
        /\ sink.commits = <<calls[i].arg>>

\* C9 as stated: a writer on which nothing was called reports 200, not
\* written, size 0; after any Write call it is written; and it reports 200
\* after a Write when no WriteHeader ever committed a status.
C9_StatusDefault_AsStated ==
    /\ calls = <<>> => (Status = StatusOK /\ ~Written /\ Size = 0)
    /\ CallsOf("Write") # {} => Written
    /\ (CallsOf("Write") # {} /\ ExplicitCommits = {}) => Status = StatusOK

\* C9, amended. A writer on which nothing was called reports 200, not written,
\* size 0; after any Write call that was not discarded as a write following an
\* interception it is written; and it reports 200 after a Write when no
\* WriteHeader ever committed a status.
C9_StatusDefault ==
    /\ calls = <<>> => (Status = StatusOK /\ ~Written /\ Size = 0)
    /\ ForwardedWrites # {} => Written
    /\ (CallsOf("Write") # {} /\ ExplicitCommits = {}) => Status = StatusOK

\* A request whose only call is a Write: written, status 200.
C9_Witness ==
    /\ phase = "serving"
    /\ Len(calls) = 1
    /\ calls[1].op = "Write"
    /\ calls[1].result = "forwarded"
    /\ Written
    /\ Status = StatusOK

\* C10 as stated: size() is the number of bytes the sink received from this
\* writer, and with no write suppressed it is the sum of the lengths of the
\* payloads written.
C10_SizeAccounting_AsStated ==
    /\ Size = sink.bytes
    /\ ForwardedWrites = CallsOf("Write") => Size = SumArg(CallsOf("Write"))

\* C10, amended. size() is the number of bytes the sink received from this
\* writer, the sum of the counts its Write returned; with no write suppressed
\* and a sink that took every byte of every payload it is the sum of the
\* lengths of the payloads written.
C10_SizeAccounting ==
    /\ Size = sink.bytes
    /\ Size = SumTaken(ForwardedWrites)
    /\ (/\ ForwardedWrites = CallsOf("Write")
        /\ \A i \in CallsOf("Write") : calls[i].n = calls[i].arg)
          => Size = SumArg(CallsOf("Write"))

\* Two payloads of one byte each went through in full: size 2.
C10_Witness ==
    \E i, j \in ForwardedWrites :
        /\ i < j
        /\ calls[i].arg = 1 /\ calls[i].n = 1
        /\ calls[j].arg = 1 /\ calls[j].n = 1
        /\ Cardinality(CallsOf("Write")) = 2
        /\ Size = 2

\* The status handed to the call this step makes.
CallArg == calls'[Len(calls')].arg

\* The step calls the substitute handler.
Intercepts == Len(stack') = Len(stack) + 1

\* C11. Interception trigger: a WriteHeader(s) call enters interception if and
\* only if the writer has committed no status yet and either s is 404 with a
\* not-found handler set on the writer or s is 405 with a method-not-allowed
\* handler set; every other WriteHeader(s) on an uncommitted writer records s,
\* sets written and forwards the commit to the sink. A WriteHeader after a
\* Write or an earlier commit never intercepts.
C11_InterceptionTrigger ==
    [][IsCall("WriteHeader") =>
          /\ Intercepts <=>
                /\ ~Written
                /\ \/ CallArg = StatusNotFound /\ rw.notFound # Nil
                   \/ CallArg = StatusMethodNotAllowed /\ rw.methodNotAllowed # Nil
          /\ (~Written /\ ~Intercepts) =>
                /\ rw'.status = CallArg
                /\ Written'
                /\ sink'.commits = Append(sink.commits, CallArg)
          /\ Intercepts =>
                /\ stack'[Len(stack')] = (IF CallArg = StatusNotFound
                                          THEN rw.notFound
                                          ELSE rw.methodNotAllowed)
                /\ sink'.commits = sink.commits]_vars

\* A WriteHeader(404) that committed on a writer holding only a
\* method-not-allowed handler, and a WriteHeader(405) after it that was ignored.
C11_Witness ==
    /\ muxes[1].notFound = Nil
    /\ muxes[1].methodNotAllowed # Nil
    /\ Len(calls) = 2
    /\ calls[1].op = "WriteHeader" /\ calls[1].arg = StatusNotFound
    /\ calls[1].result = "committed"
    /\ calls[2].op = "WriteHeader" /\ calls[2].arg = StatusMethodNotAllowed
    /\ calls[2].result = "ignored"
    /\ sink.commits = <<StatusNotFound>>
    /\ stack = <<>>

\* The calls that entered interception.
Interceptions == { i \in CallsOf("WriteHeader") : calls[i].result = "intercepted" }

\* The calls a substitute handler made.
BySubstitute(c) == c.by = "sub"

\* The statuses the substitute handler committed, in order.
SubstituteCommits ==
    LET committed(c) == BySubstitute(c) /\ c.op = "WriteHeader" /\ c.result = "committed"
        cs == SelectSeq(calls, committed)
    IN  [i \in DOMAIN cs |-> cs[i].arg]

\* The Write calls of the substitute handler that reached the sink.
SubstituteWrites == { i \in ForwardedWrites : BySubstitute(calls[i]) }

\* The dispatch path of the router for an unmatched request: it sets its
\* headers, calls WriteHeader(status) first of all, and then only writes its
\* body; handler is the custom handler the Mux holds for that status.
DefaultPath(status, handler) ==
    /\ handler # Nil
    /\ calls # <<>>
    /\ calls[1].op = "WriteHeader"
    /\ calls[1].arg = status
    /\ \A i \in DOMAIN calls : (i > 1 /\ ~BySubstitute(calls[i])) => calls[i].op = "Write"
    /\ \A h \in sink.headers : h[2] # "late"

\* C12. Interception end-to-end: when the original dispatch path sets headers,
\* calls WriteHeader(404) (or 405) as its first commit and then writes its
\* default body, and the custom handler for that status is registered, the
\* substitute handler is invoked exactly once, inside that WriteHeader call
\* (every call of the substitute handler comes before every later call of the
\* dispatch path), and the sink holds exactly the statuses and the body bytes
\* the substitute handler wrote, none of the dispatch path's body bytes and
\* none of the headers it set. (One writer and one request exist in a run.)
C12_InterceptionEndToEnd ==
    (\/ DefaultPath(StatusNotFound, muxes[1].notFound)
     \/ DefaultPath(StatusMethodNotAllowed, muxes[1].methodNotAllowed)) =>
        /\ Interceptions = {1}
        /\ Len(stack) <= 1
        /\ stack # <<>> => stack[1] = (IF calls[1].arg = StatusNotFound
                                       THEN muxes[1].notFound
                                       ELSE muxes[1].methodNotAllowed)
        /\ \A i, j \in DOMAIN calls :
              (1 < i /\ i < j /\ ~BySubstitute(calls[i])) =>
                  /\ ~BySubstitute(calls[j])
                  /\ stack = <<>>
        /\ \A i \in DOMAIN calls :
              (i > 1 /\ ~BySubstitute(calls[i])) => calls[i].result = "suppressed"
        /\ sink.commits = SubstituteCommits
        /\ sink.bytes = SumTaken(SubstituteWrites)
        /\ Size = SumTaken(SubstituteWrites)
        /\ \A h \in sink.headers : h[2] = "sub"

\* The request of TestNotFoundHandler, finished: the dispatch path called
\* WriteHeader(404), the custom handler committed 404 and wrote its body, and
\* the dispatch path's own body went nowhere.
C12_Witness ==
    /\ phase = "done"
    /\ muxes[1].notFound # Nil
    /\ Len(calls) = 4
    /\ calls[1].op = "WriteHeader" /\ calls[1].arg = StatusNotFound
    /\ calls[1].by = "orig" /\ calls[1].result = "intercepted"
    /\ calls[2].op = "WriteHeader" /\ calls[2].arg = StatusNotFound
    /\ calls[2].by = "sub" /\ calls[2].result = "committed"
    /\ calls[3].op = "Write" /\ calls[3].by = "sub" /\ calls[3].n = 1
    /\ calls[4].op = "Write" /\ calls[4].by = "orig" /\ calls[4].arg = 1
    /\ sink.commits = <<StatusNotFound>>
    /\ sink.bytes = 1
    /\ sink.headers = {<<"Content-Type", "sub">>}

\* C13. One-shot interception: at most one interception occurs on a writer;
\* both custom handlers are cleared when the substitute handler is invoked and
\* stay cleared, so a WriteHeader(404) or WriteHeader(405) made by the
\* substitute handler or by anyone later is committed as any other status (or
\* ignored as a second commit) and never invokes a substitute handler again.
C13_OneShotInterception ==
    /\ Cardinality(Interceptions) <= 1
    /\ Len(stack) <= 1
    /\ (Interceptions # {} \/ stack # <<>>) =>
          /\ rw.notFound = Nil
          /\ rw.methodNotAllowed = Nil
    /\ \A i \in Interceptions : \A j \in CallsOf("WriteHeader") :
          j > i =>
              /\ calls[j].result \in {"committed", "ignored"}
              /\ j = i + 1 => calls[j].result = "committed"
              /\ calls[j].result = "committed" =>
                    \E k \in DOMAIN sink.commits : sink.commits[k] = calls[j].arg

\* A writer holding both custom handlers intercepted a 404, and the substitute
\* handler's own WriteHeader(405) was committed to the sink.
C13_Witness ==
    /\ muxes[1].notFound # Nil
    /\ muxes[1].methodNotAllowed # Nil
    /\ Len(calls) = 2
    /\ calls[1].op = "WriteHeader" /\ calls[1].arg = StatusNotFound
    /\ calls[1].result = "intercepted"
    /\ calls[2].op = "WriteHeader" /\ calls[2].arg = StatusMethodNotAllowed
    /\ calls[2].by = "sub" /\ calls[2].result = "committed"
    /\ sink.commits = <<StatusMethodNotAllowed>>
    /\ stack # <<>>

\* The call this step makes.
ThisCall == calls'[Len(calls')]

\* C14. Write suppression: ignoreWrites becomes true only when the substitute
\* handler returns, and stays true; a Write the substitute handler makes while
\* it runs is forwarded and counted; once ignoreWrites is true every Write(b)
\* returns (len(b), no error), forwards nothing to the sink and leaves size(),
\* status() and written() unchanged.
C14_WriteSuppression ==
    [][/\ (rw'.ignoreWrites /\ ~rw.ignoreWrites) =>
              (stack # <<>> /\ stack' = SubSeq(stack, 1, Len(stack) - 1))
       /\ (rw.ignoreWrites /\ phase' = phase) => rw'.ignoreWrites
       /\ (IsCall("Write") /\ stack # <<>>) =>
              /\ ThisCall.result = "forwarded"
              /\ sink'.bytes = sink.bytes + ThisCall.n
              /\ Size' = Size + ThisCall.n
       /\ (IsCall("Write") /\ rw.ignoreWrites) =>
              /\ ThisCall.n = ThisCall.arg
              /\ ThisCall.err = FALSE
              /\ sink' = sink
              /\ Size' = Size /\ Status' = Status /\ Written' = Written]_vars

\* The substitute handler wrote one byte, which the sink took; the dispatch
\* path then wrote one byte, which was reported written and went nowhere.
C14_Witness ==
    /\ Len(calls) = 3
    /\ calls[1].result = "intercepted"
    /\ calls[2].op = "Write" /\ calls[2].by = "sub"
    /\ calls[2].result = "forwarded" /\ calls[2].n = 1
    /\ calls[3].op = "Write" /\ calls[3].by = "orig"
    /\ calls[3].result = "suppressed" /\ calls[3].arg = 1 /\ calls[3].n = 1
    /\ rw.ignoreWrites
    /\ Size = 1
    /\ sink.bytes = 1

\* C15. Header clearing: the step that enters interception removes every
\* header the sink holds at that moment, so the substitute handler starts from
\* an empty header set; while the substitute handler runs and when it returns,
\* no header it set is removed, and the sink holds no header but its own.
C15_HeaderClearing ==
    [][/\ Intercepts => sink'.headers = {}
       /\ stack # <<>> =>
              /\ sink.headers \subseteq sink'.headers
              /\ \A h \in sink'.headers : h[2] = "sub"]_vars

\* The dispatch path had set a header when its WriteHeader(404) was
\* intercepted; the substitute handler set its own and returned, and the sink
\* holds the substitute handler's header only.
C15_Witness ==
    /\ Len(calls) = 1
    /\ calls[1].result = "intercepted"
    /\ calls[1].n = 1
    /\ stack = <<>>
    /\ rw.ignoreWrites
    /\ sink.headers = {<<"Content-Type", "sub">>}

\* C16. Effective outcome: once an interception has occurred and the substitute
\* handler has returned, no WriteHeader or Write call of the original dispatch
\* path changes status(), size(), or what the sink was given, whatever the
\* substitute handler did, including when it committed nothing.
C16_EffectiveOutcome ==
    [][(/\ Interceptions # {}
        /\ stack = <<>>
        /\ IsCall("WriteHeader") \/ IsCall("Write")) =>
          /\ Status' = Status
          /\ Size' = Size
          /\ sink' = sink]_vars

\* The original dispatch path committed a status of its own: a WriteHeader of
\* its that committed, or a Write of its that reached the sink.
OriginalCommitted ==
    \E i \in DOMAIN calls :
        /\ ~BySubstitute(calls[i])
        /\ calls[i].result \in {"committed", "forwarded"}

\* C17. On a writer on which WriteHeader or Write has been called, exactly one
\* of a normal commit (the original dispatch path commits its status) and an
\* interception has happened: never both and never neither.
C17_CommitOrInterception ==
    calls # <<>> => (OriginalCommitted <=> Interceptions = {})

\* C18 as stated: a Write on a writer that has not committed and is not
\* suppressed commits 200 as a header commit (status recorded, written true,
\* the commit forwarded to the sink), forwards the bytes to the sink and adds
\* the forwarded count to size.
C18_LazyCommit_AsStated ==
    [][(IsCall("Write") /\ ~Written /\ ~rw.ignoreWrites) =>
          /\ rw'.status = StatusOK
          /\ Written'
          /\ sink'.commits = Append(sink.commits, StatusOK)
          /\ sink'.bytes = sink.bytes + ThisCall.n
          /\ Size' = Size + ThisCall.n]_vars

\* C18, amended. A Write on a writer that has not committed and is not
\* suppressed records 200 on the writer (status recorded, written true) and
\* hands the sink nothing but the bytes: no header commit is forwarded; the
\* count the sink took is added to size.
C18_LazyCommit ==
    [][(IsCall("Write") /\ ~Written /\ ~rw.ignoreWrites) =>
          /\ rw'.status = StatusOK
          /\ Written'
          /\ sink'.commits = sink.commits
          /\ sink'.bytes = sink.bytes + ThisCall.n
          /\ Size' = Size + ThisCall.n]_vars

\* A first Write of one byte: the writer holds 200 and the sink holds the byte
\* and no header commit.
C18_Witness ==
    /\ Len(calls) = 1
    /\ calls[1].op = "Write" /\ calls[1].arg = 1 /\ calls[1].n = 1
    /\ rw.status = StatusOK
    /\ rw.written
    /\ rw.size = 1
    /\ sink.commits = <<>>
    /\ sink.bytes = 1

NextWriter ==
    \/ \E h \in CustomHandlers : WithNotFound(h)
    \/ \E h \in CustomHandlers : WithMethodNotAllowed(h)
    \/ ServeHTTP
    \/ Return
    \/ \E s \in StatusCodes : WriteHeader(s)
    \/ SubstituteReturn
    \/ \E len \in 0..MaxLen : \E a \in SinkAnswers(len) : Write(len, a[1], a[2])
    \/ \E k \in HeaderKeys : SetHeader(k)

SpecWriter == Init /\ [][NextWriter]_vars

\* ------------------------------------------------------------------ nil handlers at setup

Methods == { "FlushError", "Flush", "Hijack", "Push" }

\* The values handed to wrapResponseWriter: an http.ResponseWriter with any of
\* the optional methods, either without an Unwrap method or with one that
\* returns a second http.ResponseWriter.
SinkShapes ==
    { <<a>> : a \in SUBSET Methods }
        \cup { <<a \cup {"Unwrap"}, b>> : a, b \in SUBSET Methods }

\* Arguments of Push, and what the methods of a sink return.
PushTargets == { "/style.css", "/test" }
PushOptions == { Nil, "opts" }
PushErrors == { Nil, "push failed" }
HijackResults == { "conn", "mock hijack" }
FlushErrors == { Nil, "flush failed" }

\* http.ErrNotSupported, and the error the ResponseController wraps it in,
\* whose message is "feature not supported".
ErrNotSupported == "http.ErrNotSupported"
ErrNotSupportedWrapped == "feature not supported"

\* Nothing found: no sink, no method.
NotFound == <<0, "">>

\* A lookup that asks the first http.ResponseWriter only.
ControllerFindDirect(i, methods) ==
    IF \E k \in DOMAIN methods : methods[k] \in under[i]
    THEN LET k == CHOOSE k \in DOMAIN methods :
                      /\ methods[k] \in under[i]
                      /\ \A j \in 1..(k - 1) : methods[j] \notin under[i]
         IN  <<i, methods[k]>>
    ELSE NotFound

\* http.NewResponseController(rw.ResponseWriter): the first http.ResponseWriter,
\* from under[i] on and following Unwrap, that has one of the methods, and the
\* first of the methods it has.
RECURSIVE ControllerFind(_, _)
ControllerFind(i, methods) ==
    IF i > Len(under) THEN NotFound
    ELSE IF \E k \in DOMAIN methods : methods[k] \in under[i]
    THEN LET k == CHOOSE k \in DOMAIN methods :
                      /\ methods[k] \in under[i]
                      /\ \A j \in 1..(k - 1) : methods[j] \notin under[i]
         IN  <<i, methods[k]>>
    ELSE IF "Unwrap" \in under[i] THEN ControllerFind(i + 1, methods)
    ELSE NotFound

\* A Push that looks for a Pusher as the ResponseController would.
PushFindUnwrapping == ControllerFind(1, <<"Push">>)

\* pusher, ok := rw.ResponseWriter.(http.Pusher)
PushFind == IF "Push" \in under[1] THEN <<1, "Push">> ELSE NotFound

\* A Push that hands the target on and drops the options.
PushArgsNoOptions(target, opts) == <<target, Nil>>

\* pusher.Push(target, opts)
PushArgs(target, opts) == <<target, opts>>

\* A call as the log keeps it: the operation and its arguments, the sink and the
\* method it reached (0 and "" when none), the arguments handed to that
\* method, what the sink returned and what the call returned.
CapCall(op, target, opts, found, passed, sinkResult, result) ==
    [op |-> op, target |-> target, opts |-> opts,
     layer |-> found[1], method |-> found[2],
     sinkTarget |-> passed[1], sinkOpts |-> passed[2],
     sinkResult |-> sinkResult, result |-> result]

\* wrapResponseWriter(w, r, nil, nil) on a sink of the given shape.
WrapSink(shape) ==
    /\ phase = "idle"
    /\ Running
    /\ phase' = "serving"
    /\ under' = shape
    /\ capCalls' = <<>>
    /\ rw' = wrapResponseWriter(Nil, Nil)
    /\ sink' = NewSink
    /\ stack' = <<>>
    /\ calls' = <<>>
    /\ UNCHANGED <<setupVars, concVars, lateVars>>

\* Flush: the ResponseController's Flush, its error dropped.
Flush ==
    /\ phase = "serving"
    /\ Len(capCalls) < MaxCapCalls
    /\ LET found == ControllerFind(1, <<"FlushError", "Flush">>)
       IN  \E r \in (IF found[2] = "FlushError" THEN FlushErrors ELSE {Nil}) :
               capCalls' = Append(capCalls, CapCall("Flush", Nil, Nil, found,
                                                         <<Nil, Nil>>, r, Nil))
    /\ UNCHANGED <<setupVars, writerVars, under, concVars, lateVars>>

\* Hijack: the ResponseController's Hijack and its result.
Hijack ==
    /\ phase = "serving"
    /\ Len(capCalls) < MaxCapCalls
    /\ LET found == ControllerFind(1, <<"Hijack">>)
       IN  IF found = NotFound
           THEN capCalls' = Append(capCalls, CapCall("Hijack", Nil, Nil, found,
                                                     <<Nil, Nil>>, Nil,
                                                     ErrNotSupportedWrapped))
           ELSE \E r \in HijackResults :
                    capCalls' = Append(capCalls, CapCall("Hijack", Nil, Nil, found,
                                                          <<Nil, Nil>>, r, r))
    /\ UNCHANGED <<setupVars, writerVars, under, concVars, lateVars>>

\* Push: pusher.Push(target, opts) when rw.ResponseWriter is an http.Pusher.
Push(target, opts) ==
    /\ phase = "serving"
    /\ Len(capCalls) < MaxCapCalls
    /\ LET found == PushFind
       IN  IF found = NotFound
           THEN capCalls' = Append(capCalls, CapCall("Push", target, opts, found,
                                                     <<Nil, Nil>>, Nil,
                                                     ErrNotSupported))
           ELSE \E r \in PushErrors :
                    capCalls' = Append(capCalls, CapCall("Push", target, opts, found,
                                                          PushArgs(target, opts), r, r))
    /\ UNCHANGED <<setupVars, writerVars, under, concVars, lateVars>>

\* The step is a Flush, Hijack or Push call on rw, and the call it is.
IsCapCall == Len(capCalls') = Len(capCalls) + 1
ThisCapCall == capCalls'[Len(capCalls')]

\* The step leaves the writer and what its sink was given as they were, and
\* raises no panic.
LeavesWriter ==
    /\ rw' = rw
    /\ sink' = sink
    /\ Status' = Status /\ Size' = Size /\ Written' = Written
    /\ panicMsg' = ""

\* Some sink below rw, at any depth, has the method.
SomeSinkHas(method) == \E i \in DOMAIN under : method \in under[i]

\* C22 as stated: on a writer wrapping a sink that lacks the capability, Hijack
\* returns a "feature not supported" error, Push returns the not-supported
\* error and Flush is a no-op; none of the three panics, none reaches a sink,
\* and none changes status, size or written. (A sink can flush when it has
\* Flush or FlushError.)
C22_CapabilityFallback_AsStated ==
    [][IsCapCall =>
          /\ LeavesWriter
          /\ (ThisCapCall.op = "Hijack" /\ "Hijack" \notin under[1]) =>
                (ThisCapCall.result = ErrNotSupportedWrapped /\ ThisCapCall.layer = 0)
          /\ (ThisCapCall.op = "Push" /\ "Push" \notin under[1]) =>
                (ThisCapCall.result = ErrNotSupported /\ ThisCapCall.layer = 0)
          /\ (ThisCapCall.op = "Flush"
                 /\ "Flush" \notin under[1] /\ "FlushError" \notin under[1]) =>
                ThisCapCall.layer = 0]_vars

\* C22, amended. Hijack returns a "feature not supported" error when neither
\* the wrapped sink nor any sink it unwraps to has Hijack; Flush is a no-op
\* when none of them has Flush or FlushError; Push returns the not-supported
\* error when the wrapped sink itself has no Push, whatever it unwraps to.
\* None of the three panics, none then reaches a sink, and none changes
\* status, size or written.
C22_CapabilityFallback ==
    [][IsCapCall =>
          /\ LeavesWriter
          /\ (ThisCapCall.op = "Hijack" /\ ~SomeSinkHas("Hijack")) =>
                (ThisCapCall.result = ErrNotSupportedWrapped /\ ThisCapCall.layer = 0)
          /\ (ThisCapCall.op = "Push" /\ "Push" \notin under[1]) =>
                (ThisCapCall.result = ErrNotSupported /\ ThisCapCall.layer = 0)
          /\ (ThisCapCall.op = "Flush"
                 /\ ~SomeSinkHas("Flush") /\ ~SomeSinkHas("FlushError")) =>
                ThisCapCall.layer = 0]_vars

\* A writer that committed 202 over a sink with no optional method and no
\* Unwrap: Hijack and Push both failed, and the status is still 202.
C22_Witness ==
    /\ under = << {} >>
    /\ Len(capCalls) = 2
    /\ capCalls[1].op = "Hijack" /\ capCalls[1].result = ErrNotSupportedWrapped
    /\ capCalls[2].op = "Push" /\ capCalls[2].result = ErrNotSupported
    /\ capCalls[1].layer = 0 /\ capCalls[2].layer = 0
    /\ rw.status = 202
    /\ sink.commits = <<202>>

\* The methods of a sink an operation of the wrapper looks for.
MethodsFor(op) ==
    IF op = "Flush" THEN {"FlushError", "Flush"}
    ELSE IF op = "Hijack" THEN {"Hijack"}
    ELSE {"Push"}

\* The first sink below rw that has one of the methods, 0 when none has.
FirstWith(methods) ==
    IF \E i \in DOMAIN under : under[i] \cap methods # {}
    THEN CHOOSE i \in DOMAIN under :
             /\ under[i] \cap methods # {}
             /\ \A j \in 1..(i - 1) : under[j] \cap methods = {}
    ELSE 0

\* What a call that reached a sink did there: one method of the operation,
\* FlushError rather than Flush, with the arguments of the call, and the
\* result of Hijack and Push is the sink's.
Delegated(c) ==
    /\ c.method \in MethodsFor(c.op)
    /\ c.method \in under[c.layer]
    /\ (c.op = "Flush" /\ "FlushError" \in under[c.layer]) => c.method = "FlushError"
    /\ c.op = "Push" => (c.sinkTarget = c.target /\ c.sinkOpts = c.opts)
    /\ c.op \in {"Hijack", "Push"} => c.result = c.sinkResult

\* C23 as stated: each of Flush, Hijack and Push on the wrapper invokes the
\* operation of the underlying sink exactly when the immediately wrapped sink
\* itself supports it, once, with the same target and options, and returns the
\* sink's result unchanged.
C23_CapabilityDelegation_AsStated ==
    \A i \in DOMAIN capCalls :
        LET c == capCalls[i] IN
        /\ c.layer # 0 <=> under[1] \cap MethodsFor(c.op) # {}
        /\ c.layer # 0 => (c.layer = 1 /\ Delegated(c))

\* C23, amended. Flush and Hijack invoke the operation of the first sink that
\* supports it, starting at the immediately wrapped sink and following Unwrap,
\* and reach no sink when none does; Push invokes the operation of the
\* immediately wrapped sink exactly when that sink itself supports it. A call
\* reaches one sink, once, with the same target and options; Hijack and Push
\* return the sink's result unchanged, and Flush returns nothing.
C23_CapabilityDelegation ==
    \A i \in DOMAIN capCalls :
        LET c == capCalls[i] IN
        /\ c.op \in {"Flush", "Hijack"} => c.layer = FirstWith(MethodsFor(c.op))
        /\ c.op = "Push" => (c.layer = IF "Push" \in under[1] THEN 1 ELSE 0)
        /\ c.layer # 0 => Delegated(c)
        /\ c.op = "Flush" => c.result = Nil

\* Over a sink that has Push and unwraps to one that has Hijack: Hijack reached
\* the second sink and returned its error, Push reached the first with its
\* target and options.
C23_Witness ==
    /\ under = << {"Unwrap", "Push"}, {"Hijack"} >>
    /\ Len(capCalls) = 2
    /\ capCalls[1].op = "Hijack" /\ capCalls[1].layer = 2
    /\ capCalls[1].result = "mock hijack"
    /\ capCalls[2].op = "Push" /\ capCalls[2].layer = 1
    /\ capCalls[2].sinkTarget = "/style.css" /\ capCalls[2].sinkOpts = "opts"
    /\ capCalls[2].result = Nil

\* ------------------------------------------------------------------ concurrent requests

\* Status codes the handlers of the concurrent requests hand to WriteHeader.
ConcurrentStatusCodes == { 202, 404, 405 }

\* The handler a WriteHeader(status) on the writer w hands the response to.
InterceptorOf(w, status) ==
    IF w.status = 0 /\ status = StatusNotFound /\ w.notFound # Nil
    THEN w.notFound
    ELSE IF w.status = 0 /\ status = StatusMethodNotAllowed /\ w.methodNotAllowed # Nil
    THEN w.methodNotAllowed
    ELSE Nil

\* One call on a responseWriter with its sink, or the return of the substitute
\* handler to handleInterception: what WriteHeader, Write and
\* handleInterception do to them.
WStep(w, ev) ==
    IF ev.op = "WriteHeader"
    THEN IF w.rw.written THEN w
         ELSE IF InterceptorOf(w.rw, ev.arg) # Nil
         THEN [w EXCEPT !.rw = ClearHandlers(@),
                        !.sink.headers = {},
                        !.stack = Append(@, InterceptorOf(w.rw, ev.arg))]
         ELSE [w EXCEPT !.rw.status = ev.arg,
                        !.rw.written = TRUE,
                        !.sink.commits = Append(@, ev.arg)]
    ELSE IF ev.op = "Write"
    THEN IF w.rw.ignoreWrites THEN w
         ELSE [w EXCEPT !.rw.written = TRUE,
                        !.rw.status = IF w.rw.written THEN @ ELSE StatusOK,
                        !.rw.size = @ + ev.n,
                        !.sink.bytes = @ + ev.n]
    ELSE [w EXCEPT !.rw.ignoreWrites = TRUE,
                   !.stack = SubSeq(@, 1, Len(@) - 1)]

\* m.wrapWriter(w, r): a responseWriter of its own for the request, over the
\* sink of the request.
FreshWriter ==
    [rw |-> wrapResponseWriter(muxes[1].notFound, muxes[1].methodNotAllowed),
     sink |-> NewSink,
     stack |-> <<>>]

\* One responseWriter that every request writes to.
WriterOfShared(r) == 1

\* The responseWriter of request r: the one ServeHTTP made for it.
WriterOf(r) == r

\* Mux.ServeHTTP for request r, up to the call of the router.
ServeHTTPc(r) ==
    /\ Running
    /\ conc[r].pc = "new"
    /\ conc' = [conc EXCEPT ![r].pc = "wrapped"]
    /\ writers' = [writers EXCEPT ![WriterOf(r)] = FreshWriter]
    /\ phase' = "serving"
    /\ UNCHANGED <<setupVars, rw, sink, stack, calls, capVars, counter, lateVars>>

\* The middleware of the route: counter++ under the mutex, then next.
Middleware(r) ==
    /\ conc[r].pc = "wrapped"
    /\ conc' = [conc EXCEPT ![r].pc = "handler"]
    /\ counter' = counter + 1
    /\ UNCHANGED <<setupVars, writerVars, capVars, writers, lateVars>>

\* Request r makes a call on its responseWriter, or its substitute handler
\* returns.
Does(r, ev) ==
    /\ conc[r].pc = "handler"
    /\ conc' = [conc EXCEPT ![r].log = Append(@, ev)]
    /\ writers' = [writers EXCEPT ![WriterOf(r)] = WStep(@, ev)]
    /\ UNCHANGED <<setupVars, writerVars, capVars, counter, lateVars>>

\* The calls request r made so far.
Steps(r) == Len(SelectSeq(conc[r].log, LAMBDA ev : ev.op # "return"))

\* The calls all requests made so far.
RECURSIVE StepsUpTo(_)
StepsUpTo(r) == IF r = 0 THEN 0 ELSE Steps(r) + StepsUpTo(r - 1)

TotalSteps == StepsUpTo(MaxRequests)

WriteHeaderc(r, status) ==
    /\ TotalSteps < MaxSteps
    /\ Does(r, [op |-> "WriteHeader", arg |-> status, n |-> 0])

Writec(r, len, n) ==
    /\ TotalSteps < MaxSteps
    /\ Does(r, [op |-> "Write", arg |-> len, n |-> n])

SubstituteReturnc(r) ==
    /\ writers[WriterOf(r)].stack # <<>>
    /\ Does(r, [op |-> "return", arg |-> 0, n |-> 0])

\* The handlers of request r return.
Finish(r) ==
    /\ conc[r].pc = "handler"
    /\ writers[WriterOf(r)].stack = <<>>
    /\ conc' = [conc EXCEPT ![r].pc = "done"]
    /\ UNCHANGED <<setupVars, writerVars, capVars, writers, counter, lateVars>>

\* The writer and sink a request has after the events of log, run alone.
RECURSIVE Replay(_, _)
Replay(w, log) ==
    IF log = <<>> THEN w ELSE Replay(WStep(w, Head(log)), Tail(log))

\* The requests that went through the middleware.
Invoked == { r \in DOMAIN conc : conc[r].pc \in {"handler", "done"} }

\* C24. Concurrent isolation: with the requests served through one Mux and
\* route, their steps interleaved in any way, the middleware of the route has
\* been invoked once for every request that reached it (N times when the N
\* requests are done), and the writer and sink of each request (status, size,
\* written, suppression) are what the calls of that request alone make of a new
\* writer: no call of another request shows in them.
C24_ConcurrentIsolation ==
    /\ counter = Cardinality(Invoked)
    /\ (\A r \in DOMAIN conc : conc[r].pc = "done") => counter = MaxRequests
    /\ \A r \in DOMAIN conc :
          conc[r].pc # "new" => writers[r] = Replay(FreshWriter, conc[r].log)

\* Two requests in their handlers at once: the first had its 404 intercepted
\* and its later writes are suppressed, the second committed 202 and wrote a
\* byte.
C24_Witness ==
    /\ conc[1].pc = "handler" /\ conc[2].pc = "handler"
    /\ counter = 2
    /\ writers[1].rw.ignoreWrites
    /\ writers[1].rw.status = 0
    /\ writers[2].rw.status = 202
    /\ writers[2].rw.size = 1
    /\ ~writers[2].rw.ignoreWrites

\* ------------------------------------------------------------------ the writer handed down a route

\* An http.ResponseWriter is the sequence of the wrappers around the raw sink,
\* outermost first: <<>> is the raw sink, "chain" a responseWriter of this
\* package, "other" a wrapper of somebody else's.
RawSinks == { <<>>, <<"other">> }

\* How a request reaches a composed handler: through Mux.ServeHTTP, or by a
\* call of the composed handler itself.
Entries == { "ServeHTTP", "direct" }

\* What the leaf handler of the request commits and writes.
LeafStatuses == { 200, 202 }

\* _, ok := w.(ResponseWriter)
IsChainWriter(w) == w # <<>> /\ w[1] = "chain"

\* wrapResponseWriter(w, ...): a responseWriter around w.
Wrapped(w) == <<"chain">> \o w

\* A composed handler that wraps whatever it is handed.
NeedsWrapAlways(w) == TRUE

\* if _, ok := w.(ResponseWriter); !ok { w = wrapResponseWriter(...) }
NeedsWrap(w) == ~IsChainWriter(w)

\* The writer Mux.ServeHTTP hands the router, and so the composed handler.
EntryWriter(entry, w) == IF entry = "ServeHTTP" THEN Wrapped(w) ELSE w

\* The writer the composed handler hands its middleware chain.
ChainWriter(w) == IF NeedsWrap(w) THEN Wrapped(w) ELSE w

\* What each responseWriter of a writer holds once status was committed and n
\* bytes were written through its outermost wrapper: a responseWriter records
\* them and forwards to what it wraps.
Recorded(w, status, n) ==
    [k \in { j \in DOMAIN w : w[j] = "chain" } |-> <<status, n>>]

\* A ServeHTTP that wraps with the handlers of the Mux the route was
\* registered on.
ServingMuxOfRoute(i) == routes[i].handler.mux

\* m.wrapWriter(w, r) in Mux.ServeHTTP: m is the Mux the server calls, the one
\* New returned, whatever Mux the route was registered on.
ServingMux(i) == 1

\* A request for routes[i], handed the sink w: every middleware function calls
\* next with the writer it received, the leaf handler commits status and
\* writes n bytes, and the outermost middleware function then reads Status()
\* and Size() from the writer it received. That writer holds the custom
\* handlers of the Mux that made it: the Mux New returned in ServeHTTP, the
\* Mux the route was registered on in the handler wrap returned.
Dispatch(i, entry, w, status, n) ==
    /\ Running
    /\ LET w0 == EntryWriter(entry, w)
           w1 == ChainWriter(w0)
           handler == routes[i].handler.handler
           made == IF NeedsWrap(w0) THEN routes[i].handler.mux ELSE ServingMux(i)
       IN  dispatch' =
               [route |-> i, entry |-> entry, sink |-> w,
                handlers |-> <<muxes[made].notFound, muxes[made].methodNotAllowed>>,
                created |-> (IF entry = "ServeHTTP" THEN 1 ELSE 0)
                               + (IF NeedsWrap(w0) THEN 1 ELSE 0),
                seen |-> [k \in DOMAIN handler |-> w1],
                leaf |-> <<status, n>>,
                read |-> IF IsChainWriter(w1)
                         THEN Recorded(w1, status, n)[1]
                         ELSE <<0, 0>>]
    /\ UNCHANGED <<setupVars, writerVars, capVars, concVars, reads, applied>>

\* C25. Every middleware function and the leaf handler of a route receive one
\* and the same writer, a responseWriter of this package made once for the
\* request around the sink of the request: Mux.ServeHTTP makes exactly one and
\* the composed handler does not wrap it again, and a composed handler called
\* with a sink that is not such a writer wraps it once; the status and size
\* the outermost middleware function reads after next returned are those the
\* leaf handler produced.
C25_OneWrapper ==
    dispatch.route # 0 =>
        /\ \A k \in DOMAIN dispatch.seen :
              /\ IsChainWriter(dispatch.seen[k])
              /\ dispatch.seen[k] = <<"chain">> \o dispatch.sink
        /\ dispatch.created = 1
        /\ dispatch.read = dispatch.leaf

\* A route with two middleware functions served through Mux.ServeHTTP: the
\* three functions received the one wrapper, and 202 and size 1 were read.
C25_Witness ==
    /\ dispatch.route # 0
    /\ dispatch.entry = "ServeHTTP"
    /\ dispatch.sink = <<>>
    /\ Len(dispatch.seen) = 3
    /\ dispatch.seen[1] = <<"chain">>
    /\ dispatch.seen[3] = <<"chain">>
    /\ dispatch.read = <<202, 1>>

\* ------------------------------------------------------------------ a substitute handler that answers 404 or 405

\* The interceptions whose substitute handler began by calling WriteHeader(404)
\* or WriteHeader(405) on the writer it was handed.
Reentrant ==
    { i \in Interceptions :
        /\ i < Len(calls)
        /\ calls[i + 1].op = "WriteHeader"
        /\ calls[i + 1].by = "sub"
        /\ calls[i + 1].arg \in {StatusNotFound, StatusMethodNotAllowed} }

\* C30. Interception re-entrancy terminates: given that the substitute handler
\* returns, a WriteHeader call that invoked it returns, also when the
\* substitute handler calls WriteHeader(404) or WriteHeader(405) on the same
\* writer; no substitute handler ever runs inside another, and that
\* WriteHeader call of the substitute handler is committed: its status is the
\* one the sink is handed and the one Status() reports.
C30_ReentrancyTerminates ==
    /\ [](Len(stack) <= 1)
    /\ [](\A i \in Reentrant :
              /\ calls[i + 1].result = "committed"
              /\ sink.commits = <<calls[i + 1].arg>>
              /\ Status = calls[i + 1].arg)
    /\ (stack # <<>>) ~> (stack = <<>>)

\* A 404 was intercepted, the substitute handler called WriteHeader(404)
\* itself and returned: the sink was handed 404 once.
C30_Witness ==
    /\ Len(calls) = 2
    /\ Reentrant = {1}
    /\ calls[1].arg = StatusNotFound
    /\ calls[2].arg = StatusNotFound
    /\ stack = <<>>
    /\ sink.commits = <<StatusNotFound>>

\* ------------------------------------------------------------------ which middleware runs first

\* The middleware of a composed handler that wraps the leaf handler itself.
Innermost(handler) == handler[Len(handler) - 1]

\* C28. Middleware is applied in the order it is registered, with the
\* innermost middleware of the chain executed first when a request is served:
\* the chain of the route is in registration order, and the first event of a
\* request served through a route that has middleware is the entry of the
\* middleware next to the leaf handler.
C28_InnermostFirst ==
    (served.route # 0 /\ routes[served.route].chain # <<>>) =>
        LET r == routes[served.route]
        IN  /\ InRegistrationOrder(r.chain)
            /\ served.events[1] = [ev |-> "before", id |-> Innermost(r.handler.handler)]

\* ------------------------------------------------------------------ when the chain is composed

\* The chains of the first n routes, each from its last middleware to its
\* first, one after the other.
RECURSIVE ChainsReversed(_)
ChainsReversed(n) ==
    IF n = 0 THEN <<>>
    ELSE LET chain == routes[n].chain
         IN  ChainsReversed(n - 1)
                \o [k \in DOMAIN chain |-> chain[Len(chain) + 1 - k]]

Children == { c \in DOMAIN muxes : origin[c].parent # 0 }

\* The calls made so far whose result the next call can be chained to: New,
\* the Group and Route calls (by the Mux they derived), the Use calls (by
\* their place in useLog) and the Handle and HandleFunc calls (by the route).
PrevCalls ==
    { <<"New", 1>> }
        \cup { <<"Derive", c>> : c \in Children }
        \cup { <<"Use", k>> : k \in DOMAIN useLog }
        \cup { <<"Handle", i>> : i \in DOMAIN routes }

\* The receiver of a call made earlier; for New, the Mux it made.
ReceiverOf(call) ==
    CASE call[1] = "New" -> 1
      [] call[1] = "Derive" -> origin[call[2]].parent
      [] call[1] = "Use" -> useLog[call[2]]
      [] call[1] = "Handle" -> routes[call[2]].handler.mux

\* A Group and a Route that return the Mux they derived.
ReturnsChild(call) ==
    IF call[1] = "Derive" THEN call[2] ELSE ReceiverOf(call)

\* return m: every method returns its receiver, Group and Route included.
Returns(call) == ReceiverOf(call)

\* call(...).Use(args), call(...).Group(fn), ...: the next method is called on
\* what the earlier call returned.
ChainedUse(call, args) == Use(Returns(call), args)
ChainedGroup(call, fn) == Group(Returns(call), fn)
ChainedRoute(call, prefix, fn) == Route(Returns(call), prefix, fn)
ChainedHandle(call, pattern, handler) == Handle(Returns(call), pattern, handler)
ChainedHandleFunc(call, pattern, handlerFunc) ==
    HandleFunc(Returns(call), pattern, handlerFunc)

\* The registration the step added, as Handle on m registers the pattern.
RegistersOn(m, pattern) ==
    /\ Len(routes') = Len(routes) + 1
    /\ routes'[Len(routes')].handler.mux = m
    /\ routes'[Len(routes')].pattern = prefixPattern(m, pattern)
    /\ routes'[Len(routes')].chain = muxes[m].middlewares

AccessorShapes == { << {} >>, << {"Unwrap"}, {} >> }

\* A Status() that stores the default it reports.
AfterStatusStored == [rw EXCEPT !.status = Status]

\* The responseWriter after Status(): the method assigns nothing.
AfterStatus == rw

\* The responseWriter after Size(), Written() and Unwrap().
AfterSize == rw
AfterWritten == rw
AfterUnwrap == rw

\* return rw.ResponseWriter: the sink rw wraps, with what that sink wraps.
Unwrap == under

\* A call of an accessor on rw, at any point of the request or after it.
Accessor(op, value, after) ==
    /\ phase # "idle"
    /\ reads' = [op |-> op, value |-> value]
    /\ rw' = after
    /\ UNCHANGED <<setupVars, phase, sink, stack, calls, capVars, concVars, dispatch, applied>>

StatusCall == Accessor("Status", Status, AfterStatus)
SizeCall == Accessor("Size", Size, AfterSize)
WrittenCall == Accessor("Written", Written, AfterWritten)
UnwrapCall == Accessor("Unwrap", Unwrap, AfterUnwrap)

\* The step is a call of this accessor.
IsRead(op) == reads' # reads /\ reads'.op = op

\* The status the WriteHeader call that committed was handed; none if no
\* WriteHeader call committed.
CommittedStatuses == { calls[i].arg : i \in ExplicitCommits }

LateHandlers == { Nil, "custom", "late" }

\* A responseWriter that shares the not-found handler with the Mux.
WriterAfterWithShared(handler) == [rw EXCEPT !.notFound = handler]

\* The responseWriter of the request in flight after m.notFound = handler: it
\* holds the copies wrapResponseWriter was handed.
WriterAfterWith(handler) == rw

\* WithNotFound on any Mux, called at any time: before the routes are
\* registered, after, or while the request is in flight.
WithNotFoundOn(m, handler) ==
    /\ Running
    /\ muxes' = [muxes EXCEPT ![m].notFound = handler]
    /\ rw' = WriterAfterWith(handler)
    /\ UNCHANGED <<origin, routes, useLog, served, panicMsg,
                   phase, sink, stack, calls, restVars>>

\* C37. The custom handlers that govern a request are those the Mux New
\* returned holds when ServeHTTP wraps the sink of the request: the writer is
\* made with the handlers the Mux has at that step, also when they were set
\* after the routes were registered; a WithNotFound or WithMethodNotAllowed
\* call made while the request is in flight changes nothing of its writer;
\* and a WriteHeader that is intercepted invokes the handler the writer was
\* made with, whatever the Mux holds by then.
C37_HandlersAtWrap ==
    [][/\ (phase = "idle" /\ phase' = "serving") =>
              /\ rw'.notFound = muxes[1].notFound
              /\ rw'.methodNotAllowed = muxes[1].methodNotAllowed
       /\ (phase = "serving" /\ muxes' # muxes) =>
              (rw' = rw /\ stack' = stack /\ sink' = sink /\ calls' = calls)
       /\ (phase = "serving" /\ Len(stack') > Len(stack)) =>
              /\ CallArg = StatusNotFound => stack'[Len(stack')] = rw.notFound
              /\ CallArg = StatusMethodNotAllowed =>
                    stack'[Len(stack')] = rw.methodNotAllowed]_vars

\* A route was registered, then WithNotFound set a handler and the request was
\* wrapped; WithNotFound set another handler while it was in flight, and then
\* its 404 was intercepted by the handler its writer was made with.
C37_Witness ==
    /\ routes # <<>>
    /\ muxes[1].notFound = "late"
    /\ Len(calls) = 1
    /\ calls[1].arg = StatusNotFound
    /\ calls[1].result = "intercepted"
    /\ stack = <<"custom">>

\* ------------------------------------------------------------------ a handler that panics

\* The functions of this package a panic of a middleware or a leaf handler
\* unwinds through on its way to the caller of Mux.ServeHTTP.
CoreFrames == { "wrap", "ServeHTTP" }

\* A Mux.ServeHTTP that recovers from the panics of its handlers.
RecoversInServeHTTP(frame) == frame = "ServeHTTP"

\* Neither function defers anything: no frame recovers.
Recovers(frame) == FALSE

\* Where request r is after a panic: with the caller of ServeHTTP, as a
\* panic, unless a frame of this package recovered and returned.
PanicOutcome == IF \E f \in CoreFrames : Recovers(f) THEN "done" ELSE "panicked"

\* The middleware or a handler of request r panics.
Panic(r) ==
    /\ conc[r].pc \in {"wrapped", "handler"}
    /\ conc' = [conc EXCEPT ![r].pc = PanicOutcome]
    /\ UNCHANGED <<setupVars, writerVars, capVars, writers, counter, lateVars>>

\* The requests a panic ended.
Panicked == { r \in DOMAIN conc : conc[r].pc = "panicked" }

\* C31. Failure isolation: a panic of a middleware or a handler of one
\* request is not caught by this package and reaches the caller of ServeHTTP;
\* it leaves the chains and handlers of every Mux, the routes, and the writer
\* and sink of every other request as they were, and the other requests go on
\* as if it had not happened: their writers hold what their own calls make of
\* a new writer.
C31_FailureIsolation ==
    /\ [](\A r \in DOMAIN conc :
              (Panicked \ {r} # {} /\ conc[r].pc \notin {"new", "panicked"}) =>
                  writers[r] = Replay(FreshWriter, conc[r].log))
    /\ [][\A r \in DOMAIN conc :
              (conc[r].pc \in {"wrapped", "handler"}
                  /\ conc'[r].pc \notin {"wrapped", "handler"}
                  /\ conc'[r].log = conc[r].log
                  /\ ~Finish(r)) =>
                  /\ conc'[r].pc = "panicked"
                  /\ muxes' = muxes
                  /\ routes' = routes
                  /\ \A q \in DOMAIN conc \ {r} :
                        writers'[q] = writers[q] /\ conc'[q] = conc[q]]_vars

\* The first request panicked in its handler after its 404 was intercepted;
\* the second one committed 202, wrote a byte and is done.
C31_Witness ==
    /\ conc[1].pc = "panicked"
    /\ conc[1].log # <<>>
    /\ writers[1].stack # <<>>
    /\ conc[2].pc = "done"
    /\ writers[2].rw.status = 202
    /\ writers[2].rw.size = 1

\* ------------------------------------------------------------------ a Use call with a nil argument

\* C39. Use is all-or-nothing: a Use call with a nil argument in any position
\* panics before it appends anything, so the chain of the Mux is after the
\* call what it was before it, also when the arguments in front of the nil
\* one are middleware.
C39_UseAllOrNothing ==
    [][\A args \in UseArgs :
          ((\E i \in DOMAIN args : args[i] = Nil) /\ Use(1, args)) =>
              /\ panicMsg' # ""
              /\ muxes'[1].middlewares = muxes[1].middlewares
              /\ useLog' = useLog]_vars

\* Use panicked on a Mux that had a chain of two middleware: the chain is
\* still those two.
C39_Witness ==
    /\ panicMsg = "chain: nil middleware passed to Use"
    /\ Len(muxes[1].middlewares) = 2
    /\ useLog = <<1, 1>>

\* ------------------------------------------------------------------ invariants of the responseWriter

\* C32. Over any sequence of WriteHeader and Write calls on one writer, the
\* calls made inside and after an interception included, the sink is handed at
\* most one WriteHeader.
C32_OneCommitForwarded ==
    Len(sink.commits) <= 1

\* An intercepted 404, a WriteHeader of the substitute handler that was
\* committed, and two more WriteHeader calls after it returned: the sink was
\* handed one status.
C32_Witness ==
    /\ Len(calls) = 4
    /\ \A i \in DOMAIN calls : calls[i].op = "WriteHeader"
    /\ calls[1].result = "intercepted"
    /\ calls[2].by = "sub" /\ calls[2].result = "committed"
    /\ calls[3].by = "orig" /\ calls[4].by = "orig"
    /\ calls[3].arg # calls[2].arg
    /\ Len(sink.commits) = 1

\* C33. Once an interception has fired on a writer, no WriteHeader call made
\* after the substitute handler returned is forwarded to the sink or changes
\* Status() or Written(), whether or not the substitute handler committed a
\* status itself.
C33_NoCommitAfterInterception ==
    [][(Interceptions # {} /\ stack = <<>> /\ IsCall("WriteHeader")) =>
          /\ sink'.commits = sink.commits
          /\ Status' = Status
          /\ Written' = Written]_vars

\* C34. On a writer to which no status 0 was committed, Written() is true
\* exactly when the stored status is not 0, and a writer that is not written
\* has size 0: WriteHeader's test of the stored status for interception is a
\* test of "not written".
C34_WrittenIffStatus ==
    (\A i \in ExplicitCommits : calls[i].arg # 0) =>
        /\ rw.written <=> rw.status # 0
        /\ ~rw.written => rw.size = 0

\* Written by a Write alone, of which the sink took nothing: the stored status
\* is 200 and the size 0.
C34_Witness ==
    /\ Len(calls) = 1
    /\ calls[1].op = "Write" /\ calls[1].result = "forwarded" /\ calls[1].n = 0
    /\ rw.written
    /\ rw.status = StatusOK
    /\ rw.size = 0

\* C35. The state of a writer is monotone over the calls made on it: written
\* and ignoreWrites never go from true to false, the size never decreases,
\* the stored status does not change once written is true, a handler that is
\* nil stays nil; and while ignoreWrites is true both handlers are nil.
C35_Monotone ==
    /\ [](rw.ignoreWrites => (rw.notFound = Nil /\ rw.methodNotAllowed = Nil))
    /\ [][phase = "serving" =>
              /\ rw.written => rw'.written
              /\ rw.ignoreWrites => rw'.ignoreWrites
              /\ rw'.size >= rw.size
              /\ rw.written => rw'.status = rw.status
              /\ rw.notFound = Nil => rw'.notFound = Nil
              /\ rw.methodNotAllowed = Nil => rw'.methodNotAllowed = Nil]_vars

\* A writer that is written, ignores writes, has taken a byte and has lost its
\* handlers, with a call made on it since.
C35_Witness ==
    /\ rw.written
    /\ rw.ignoreWrites
    /\ rw.size = 1
    /\ muxes[1].notFound # Nil
    /\ rw.notFound = Nil
    /\ calls[Len(calls)].by = "orig"
    /\ calls[Len(calls)].result \in {"ignored", "suppressed"}

\* C40. A Write that is not suppressed returns the count and the error the
\* sink's Write returned, adds that count to the size also when the sink
\* reports an error or took part of the payload only, and leaves the writer
\* written, with status 200 if no WriteHeader committed one, whatever the sink
\* answered.
C40_WritePassesThrough ==
    [][(IsCall("Write") /\ ~rw.ignoreWrites) =>
          /\ \E a \in SinkAnswers(ThisCall.arg) :
                 /\ Write(ThisCall.arg, a[1], a[2])
                 /\ ThisCall.n = a[1]
                 /\ ThisCall.err = a[2]
          /\ ThisCall.n = sink'.bytes - sink.bytes
          /\ rw'.size = rw.size + ThisCall.n
          /\ rw'.written
          /\ ExplicitCommits = {} => Status' = StatusOK]_vars

\* A Write of one byte to a sink that took nothing and reported an error: the
\* call returned 0 and the error, the size is 0, the writer is written.
C40_Witness ==
    /\ Len(calls) = 2
    /\ calls[1].op = "WriteHeader" /\ calls[1].result = "committed"
    /\ calls[2].op = "Write" /\ calls[2].arg = 1
    /\ calls[2].n = 0 /\ calls[2].err
    /\ rw.written
    /\ rw.size = 0
    /\ sink.bytes = 0

\* ------------------------------------------------------------------ a sink that commits one status

\* The statuses a sink that commits once accepts: WriteHeader of net/http
\* panics on a code below 100, so 0 is never committed.
CommitCodes == StatusCodes \ {0}

\* Flush on a writer whose sink can flush:
\* http.NewResponseController(rw.ResponseWriter).Flush() reaches the sink, and
\* no field of the writer is read or set.
FlushSink ==
    /\ phase = "serving"
    /\ Len(calls) < MaxCalls
    /\ calls' = Append(calls, Call("Flush", 0, "flushed", 0, FALSE))
    /\ UNCHANGED <<setupVars, restVars, phase, rw, sink, stack>>

\* The calls that reached the sink: the WriteHeader calls that committed, the
\* Write calls that were not discarded, the Flush calls.
ReachedSink ==
    { i \in DOMAIN calls : calls[i].result \in {"committed", "forwarded", "flushed"} }

\* The status a sink that commits once holds: that of the first WriteHeader
\* it is handed, or 200 when a body write or a flush comes first.
SinkStatus ==
    LET first == CHOOSE i \in ReachedSink : \A j \in ReachedSink : i <= j
    IN  IF calls[first].op = "WriteHeader" THEN calls[first].arg ELSE StatusOK

\* C36. On a writer that reports written, Status() is the status its sink
\* committed, for a sink that commits one status, the first it is handed or
\* 200 at its first body write or flush, whatever WriteHeader, Write and
\* Flush calls were made on the writer.
C36_StatusIsCommitted ==
    Written => (ReachedSink # {} /\ Status = SinkStatus)

\* ------------------------------------------------------------------ custom handlers set on a child Mux

\* WithMethodNotAllowed on any Mux, called at any time.
WithMethodNotAllowedOn(m, handler) ==
    /\ Running
    /\ muxes' = [muxes EXCEPT ![m].methodNotAllowed = handler]
    /\ UNCHANGED <<origin, routes, useLog, served, panicMsg, writerVars, restVars>>

\* The custom handlers a Mux holds.
HandlersOf(m) == <<muxes[m].notFound, muxes[m].methodNotAllowed>>

\* C38. The Mux a Group or a Route call derives holds no not-found and no
\* method-not-allowed handler, whatever its parent holds; a WithNotFound or
\* WithMethodNotAllowed call on a derived Mux leaves the handlers of the Mux
\* New returned as they are; and the writer of a request that enters through
\* ServeHTTP of the Mux New returned holds the handlers of that Mux, also
\* when the route was registered on a derived Mux that holds others.
C38_ChildHandlers ==
    [][/\ Len(muxes') > Len(muxes) =>
             /\ muxes'[Len(muxes')].notFound = Nil
             /\ muxes'[Len(muxes')].methodNotAllowed = Nil
       /\ (Len(muxes') = Len(muxes) /\ \E c \in Children : muxes'[c] # muxes[c]) =>
             /\ muxes'[1].notFound = muxes[1].notFound
             /\ muxes'[1].methodNotAllowed = muxes[1].methodNotAllowed
       /\ (dispatch' # dispatch /\ dispatch'.entry = "ServeHTTP") =>
             dispatch'.handlers = HandlersOf(1)]_vars

\* A request through ServeHTTP for a route registered on a derived Mux that
\* holds a not-found handler of its own, derived from a Mux that held one
\* too: the writer holds the handlers of the Mux New returned.
C38_Witness ==
    /\ dispatch.route # 0
    /\ dispatch.entry = "ServeHTTP"
    /\ routes[dispatch.route].handler.mux \in Children
    /\ HandlersOf(routes[dispatch.route].handler.mux) = <<"custom", Nil>>
    /\ HandlersOf(1) = <<Nil, "custom">>
    /\ dispatch.handlers = <<Nil, "custom">>

\* ------------------------------------------------------------------ disabling interception

\* C21. WithNotFound and WithMethodNotAllowed accept a nil handler without a
\* panic, also when a handler had been set before, and the Mux then holds no
\* handler for that status; on a request served by a Mux that holds no
\* not-found (method-not-allowed) handler, a first WriteHeader(404) (405) is
\* committed to the sink and no substitute handler runs.
C21_NilDisablesInterception ==
    [][/\ WithNotFound(Nil) =>
             (panicMsg' = "" /\ muxes'[1].notFound = Nil)
       /\ WithMethodNotAllowed(Nil) =>
             (panicMsg' = "" /\ muxes'[1].methodNotAllowed = Nil)
       /\ (/\ IsCall("WriteHeader")
           /\ calls = <<>>
           /\ \/ CallArg = StatusNotFound /\ muxes[1].notFound = Nil
              \/ CallArg = StatusMethodNotAllowed /\ muxes[1].methodNotAllowed = Nil) =>
             /\ ~Intercepts
             /\ stack' = <<>>
             /\ sink'.commits = <<CallArg>>
             /\ rw'.status = CallArg
             /\ Written']_vars

\* A Mux holding a not-found handler and no method-not-allowed handler served
\* a request whose first call, WriteHeader(405), went to the sink.
C21_Witness ==
    /\ muxes[1].notFound # Nil
    /\ muxes[1].methodNotAllowed = Nil
    /\ Len(calls) = 1
    /\ calls[1].op = "WriteHeader" /\ calls[1].arg = StatusMethodNotAllowed
    /\ calls[1].result = "committed"
    /\ sink.commits = <<StatusMethodNotAllowed>>
    /\ stack = <<>>

Next ==
    \/ \E m \in DOMAIN muxes, args \in UseArgs : Use(m, args)
    \/ \E m \in DOMAIN muxes, fn \in Callbacks : Group(m, fn)
    \/ \E m \in DOMAIN muxes, p \in RoutePrefixes, fn \in Callbacks : Route(m, p, fn)
    \/ \E m \in DOMAIN muxes, p \in Patterns, h \in LeafHandlers : Handle(m, p, h)
    \/ \E m \in DOMAIN muxes, p \in Patterns, h \in LeafHandlers : HandleFunc(m, p, h)
    \/ \E i \in DOMAIN routes : ServeRoute(i)

Spec == Init /\ [][Next]_vars

\* Setup alone: no request is served.
NextSetup ==
    \/ \E m \in DOMAIN muxes, args \in UseArgs : Use(m, args)
    \/ \E m \in DOMAIN muxes, fn \in Callbacks : Group(m, fn)
    \/ \E m \in DOMAIN muxes, p \in RoutePrefixes, fn \in Callbacks : Route(m, p, fn)
    \/ \E m \in DOMAIN muxes, p \in Patterns, h \in LeafHandlers : Handle(m, p, h)
    \/ \E m \in DOMAIN muxes, p \in Patterns, h \in LeafHandlers : HandleFunc(m, p, h)

SpecSetup == Init /\ [][NextSetup]_vars

\* The setup of a Mux as New returned it, custom handlers included.
NextNewMux ==
    \/ \E args \in UseArgs : Use(1, args)
    \/ \E p \in Patterns, h \in LeafHandlers : Handle(1, p, h)
    \/ \E p \in Patterns, h \in LeafHandlers : HandleFunc(1, p, h)
    \/ \E h \in CustomHandlers : WithNotFound(h)
    \/ \E h \in CustomHandlers : WithMethodNotAllowed(h)

SpecNewMux == Init /\ [][NextNewMux]_vars

\* A responseWriter made over a sink of any shape, as the tests of the
\* optional methods make it, and the calls made on it.
NextCaps ==
    \/ \E shape \in SinkShapes : WrapSink(shape)
    \/ Flush
    \/ Hijack
    \/ \E target \in PushTargets, opts \in PushOptions : Push(target, opts)
    \/ \E s \in StatusCodes : calls = <<>> /\ WriteHeader(s)
    \/ \E len \in 0..MaxLen : \E a \in SinkAnswers(len) :
           calls = <<>> /\ Write(len, a[1], a[2])

SpecCaps == Init /\ [][NextCaps]_vars

\* The Mux of TestConcurrentRequests, set up and then serving its requests
\* concurrently: any request takes the next step.
NextConcurrent ==
    \/ \E h \in CustomHandlers : WithNotFound(h)
    \/ \E h \in CustomHandlers : WithMethodNotAllowed(h)
    \/ \E r \in DOMAIN conc : ServeHTTPc(r)
    \/ \E r \in DOMAIN conc : Middleware(r)
    \/ \E r \in DOMAIN conc, s \in ConcurrentStatusCodes : WriteHeaderc(r, s)
    \/ \E r \in DOMAIN conc, len \in 1..MaxLen : Writec(r, len, len)
    \/ \E r \in DOMAIN conc : SubstituteReturnc(r)
    \/ \E r \in DOMAIN conc : Finish(r)

SpecConcurrent == Init /\ [][NextConcurrent]_vars

\* One request on a Mux whose custom handlers are set at any time.
NextLateHandlers ==
    \/ \E p \in Patterns : phase = "idle" /\ Handle(1, p, "h1")
    \/ \E h \in LateHandlers : WithNotFoundOn(1, h)
    \/ ServeHTTP
    \/ Return
    \/ \E s \in ConcurrentStatusCodes : WriteHeader(s)
    \/ SubstituteReturn

SpecLateHandlers == Init /\ [][NextLateHandlers]_vars

\* Concurrent requests of which any may end in a panic.
NextPanic ==
    \/ \E h \in CustomHandlers : WithNotFound(h)
    \/ \E r \in DOMAIN conc : ServeHTTPc(r)
    \/ \E r \in DOMAIN conc : Middleware(r)
    \/ \E r \in DOMAIN conc, s \in ConcurrentStatusCodes : WriteHeaderc(r, s)
    \/ \E r \in DOMAIN conc, len \in 1..MaxLen : Writec(r, len, len)
    \/ \E r \in DOMAIN conc : SubstituteReturnc(r)
    \/ \E r \in DOMAIN conc : Finish(r)
    \/ \E r \in DOMAIN conc : Panic(r)

SpecPanic == Init /\ [][NextPanic]_vars

\* The Mux New returned, its middleware and routes, and requests followed
\* through the composed handlers.
NextDispatch ==
    \/ \E args \in UseArgs : Use(1, args)
    \/ \E p \in Patterns, h \in LeafHandlers : Handle(1, p, h)
    \/ \E i \in DOMAIN routes, entry \in Entries, w \in RawSinks,
          status \in LeafStatuses, n \in 0..MaxLen : Dispatch(i, entry, w, status, n)

SpecDispatch == Init /\ [][NextDispatch]_vars

\* A request whose handlers also flush, on a sink that commits one status.
NextFlush ==
    \/ WithNotFound("custom")
    \/ ServeHTTP
    \/ Return
    \/ \E s \in CommitCodes : WriteHeader(s)
    \/ SubstituteReturn
    \/ \E len \in 0..MaxLen : \E a \in SinkAnswers(len) : Write(len, a[1], a[2])
    \/ FlushSink

SpecFlush == Init /\ [][NextFlush]_vars

\* Scopes derived from the Mux New returned, custom handlers set on any of
\* them, routes registered on any of them, and requests for those routes.
NextChildHandlers ==
    \/ Group(1, "fn")
    \/ Route(1, <<"/", "a">>, "fn")
    \/ \E m \in DOMAIN muxes, h \in CustomHandlers : WithNotFoundOn(m, h)
    \/ \E m \in DOMAIN muxes : WithMethodNotAllowedOn(m, "custom")
    \/ \E m \in DOMAIN muxes : HandleFunc(m, <<"/", "h">>, "h1")
    \/ \E i \in DOMAIN routes : Dispatch(i, "ServeHTTP", <<>>, StatusNotFound, 0)

SpecChildHandlers == Init /\ [][NextChildHandlers]_vars

\* Setup written as chains of calls: every call on a Mux that is not the
\* argument of a callback is made on what an earlier call returned; the calls
\* inside a callback are made on the Mux the callback was handed.
NextChained ==
    \/ \E call \in PrevCalls : ChainedUse(call, <<"fn">>)
    \/ \E call \in PrevCalls : ChainedGroup(call, "fn")
    \/ \E call \in PrevCalls, prefix \in RoutePrefixes : ChainedRoute(call, prefix, "fn")
    \/ \E call \in PrevCalls, p \in Patterns : ChainedHandle(call, p, "h1")
    \/ \E call \in PrevCalls, p \in Patterns : ChainedHandleFunc(call, p, "h1")
    \/ \E c \in Children : Use(c, <<"fn">>)
    \/ \E c \in Children, p \in Patterns : HandleFunc(c, p, "h1")

SpecChained == Init /\ [][NextChained]_vars

\* One request on a responseWriter whose substitute handlers return: a
\* substitute handler that was invoked does not run forever.
NextReentrant ==
    \/ \E h \in CustomHandlers : WithNotFound(h)
    \/ \E h \in CustomHandlers : WithMethodNotAllowed(h)
    \/ ServeHTTP
    \/ Return
    \/ \E s \in StatusCodes : WriteHeader(s)
    \/ SubstituteReturn
    \/ \E len \in 1..MaxLen : Write(len, len, FALSE)

SpecReentrant == Init /\ [][NextReentrant]_vars /\ WF_vars(SubstituteReturn)

\* One request on a responseWriter, with the accessors read at any point of it.
NextAccessors ==
    \/ \E h \in CustomHandlers : WithNotFound(h)
    \/ ServeHTTP
    \/ \E shape \in AccessorShapes : WrapSink(shape)
    \/ \E s \in StatusCodes : WriteHeader(s)
    \/ SubstituteReturn
    \/ \E len \in 1..MaxLen : Write(len, len, FALSE)
    \/ StatusCall
    \/ SizeCall
    \/ WrittenCall
    \/ UnwrapCall

SpecAccessors == Init /\ [][NextAccessors]_vars

====
